---- MODULE Spec2Model ----
(***************************************************************************)
(* Model of the IRC line parser of simple-irc (src/src/message.rs) and of  *)
(* its escape table (src/src/escaped.rs).                                  *)
(*                                                                         *)
(* A string is a sequence of one-character strings.  A parser result is a  *)
(* record [ok, rest, val]: nom's Ok((rest, val)) or Err(Error).  None of   *)
(* the combinators used by the parser produces Err::Failure or Incomplete, *)
(* so a single error value is enough.  An Option is a sequence of length   *)
(* 0 (None) or 1 (Some).  A BTreeMap is a set of <<key, value>> pairs with *)
(* pairwise distinct keys.                                                 *)
(***************************************************************************)
EXTENDS FiniteSets, Integers, Sequences, TLC

VARIABLES msg, input, result, pc

vars == <<msg, input, result, pc>>

(***************************************************************************)
(* Characters the grammar names.                                           *)
(***************************************************************************)
\* NUL stands for the character of code 0.
NUL == "NUL"
CR == "\r"
LF == "\n"
SP == " "
BS == "\\"

(***************************************************************************)
(* nom results and combinators, as the parser uses them.                   *)
(***************************************************************************)
Ok(rest, val) == [ok |-> TRUE, rest |-> rest, val |-> val]

Err == [ok |-> FALSE, rest |-> <<>>, val |-> <<>>]

TakeN(s, n) == SubSeq(s, 1, n)

DropN(s, n) == SubSeq(s, n + 1, Len(s))

\* Length of the longest prefix of s[i..] whose characters all satisfy
\* (c \in arr) = member, counted from position 1.
RECURSIVE SpanLen(_, _, _, _)
SpanLen(s, i, arr, member) ==
    IF i > Len(s) \/ (s[i] \in arr) # member
    THEN i - 1
    ELSE SpanLen(s, i + 1, arr, member)

\* bytes::complete::is_not: one or more characters outside arr.
is_not(arr, in) ==
    LET n == SpanLen(in, 1, arr, FALSE)
    IN  IF n = 0 THEN Err ELSE Ok(DropN(in, n), TakeN(in, n))

\* bytes::complete::is_a: one or more characters of arr.
is_a(arr, in) ==
    LET n == SpanLen(in, 1, arr, TRUE)
    IN  IF n = 0 THEN Err ELSE Ok(DropN(in, n), TakeN(in, n))

\* bytes::complete::tag: the literal t.
tag(t, in) ==
    IF Len(in) >= Len(t) /\ TakeN(in, Len(t)) = t
    THEN Ok(DropN(in, Len(t)), t)
    ELSE Err

\* combinator::opt applied to the result r of running a parser on in.
opt(r, in) == IF r.ok THEN Ok(r.rest, <<r.val>>) ELSE Ok(in, <<>>)

\* combinator::all_consuming applied to a result.
all_consuming(r) == IF r.ok /\ r.rest = <<>> THEN r ELSE Err

\* character::complete::line_ending: "\n" or "\r\n".
line_ending(in) ==
    IF tag(<<LF>>, in).ok
    THEN tag(<<LF>>, in)
    ELSE tag(<<CR, LF>>, in)

(***************************************************************************)
(* src/src/escaped.rs                                                      *)
(***************************************************************************)
\* escape_char with the backslash left without an escape sequence.
escape_char_nobs(c) ==
    CASE c = ";" -> <<<<BS, ":">>>>
      [] c = SP -> <<<<BS, "s">>>>
      [] c = CR -> <<<<BS, "r">>>>
      [] c = LF -> <<<<BS, "n">>>>
      [] OTHER -> <<>>

escape_char(c) ==
    CASE c = ";" -> <<<<BS, ":">>>>
      [] c = SP -> <<<<BS, "s">>>>
      [] c = BS -> <<<<BS, BS>>>>
      [] c = CR -> <<<<BS, "r">>>>
      [] c = LF -> <<<<BS, "n">>>>
      [] OTHER -> <<>>

\* unescape_char without the arm for 'r'.
unescape_char_nocr(c) ==
    CASE c = ":" -> ";"
      [] c = "s" -> SP
      [] c = BS -> BS
      [] c = "n" -> LF
      [] OTHER -> c

unescape_char(c) ==
    CASE c = ":" -> ";"
      [] c = "s" -> SP
      [] c = BS -> BS
      [] c = "r" -> CR
      [] c = "n" -> LF
      [] OTHER -> c

(***************************************************************************)
(* src/src/message.rs                                                      *)
(***************************************************************************)
parse_nospcrlfcl(in) == is_not({NUL, CR, LF, SP}, in)

parse_tag_component(in) == is_not({NUL, CR, LF, ";", SP}, in)

parse_tag_name(in) == is_not({NUL, CR, LF, "=", SP}, in)

\* parse_escaped_char with the backslash of an unknown escape kept.
parse_escaped_char_keep(in) ==
    IF Len(in) = 0
    THEN Ok(in, <<>>)
    ELSE LET escaped_char == in[1]
         IN  Ok(Tail(in),
                CASE escaped_char = ":" -> <<";">>
                  [] escaped_char = "s" -> <<SP>>
                  [] escaped_char = BS -> <<BS>>
                  [] escaped_char = "r" -> <<CR>>
                  [] escaped_char = "n" -> <<LF>>
                  [] OTHER -> <<BS, escaped_char>>)

parse_escaped_char(in) ==
    IF Len(in) = 0
    THEN Ok(in, <<>>)
    ELSE LET escaped_char == in[1]
         IN  Ok(Tail(in),
                CASE escaped_char = ":" -> <<";">>
                  [] escaped_char = "s" -> <<SP>>
                  [] escaped_char = BS -> <<BS>>
                  [] escaped_char = "r" -> <<CR>>
                  [] escaped_char = "n" -> <<LF>>
                  [] OTHER -> <<escaped_char>>)

parse_empty_str(in) == Ok(in, <<>>)

\* The loop of parse_tag_value, entered with the text still to read and the
\* string built so far.
RECURSIVE parse_tag_value_loop(_, _)
parse_tag_value_loop(in, ret) ==
    LET c == opt(is_not({NUL, CR, LF, BS, SP}, in), in)
        loop_input == c.rest
        ret1 == IF Len(c.val) = 1 THEN ret \o c.val[1] ELSE ret
    IN  IF Len(loop_input) = 0
        THEN Ok(loop_input, ret1)
        ELSE LET b == tag(<<BS>>, loop_input)
             IN  IF ~b.ok
                 THEN Err
                 ELSE LET e == parse_escaped_char(b.rest)
                      IN  parse_tag_value_loop(e.rest, ret1 \o e.val)

parse_tag_value(in) == parse_tag_value_loop(in, <<>>)

\* An insert that keeps the entry a key already has.
insert_first(map, k, v) ==
    IF \E p \in map : p[1] = k THEN map ELSE map \cup {<<k, v>>}

\* BTreeMap::insert.
insert(map, k, v) == {p \in map : p[1] # k} \cup {<<k, v>>}

\* separated_list(tag(";"), parse_tag_component): the loop after the first
\* element; a separator that no element follows is not consumed.
RECURSIVE tags_list_loop(_, _)
tags_list_loop(in, res) ==
    LET s == tag(<<";">>, in)
    IN  IF ~s.ok
        THEN Ok(in, res)
        ELSE LET f == parse_tag_component(s.rest)
             IN  IF ~f.ok
                 THEN Ok(in, res)
                 ELSE tags_list_loop(f.rest, Append(res, f.val))

tags_list(in) ==
    LET f == parse_tag_component(in)
    IN  IF ~f.ok THEN Ok(in, <<>>) ELSE tags_list_loop(f.rest, <<f.val>>)

\* The for loop of parse_tags over the components from position i on.
RECURSIVE tags_fold(_, _, _)
tags_fold(list, i, ret) ==
    IF i > Len(list)
    THEN Ok(<<>>, ret)
    ELSE LET n == parse_tag_name(list[i])
         IN  IF ~n.ok
             THEN Err
             ELSE LET separator == opt(tag(<<"=">>, n.rest), n.rest)
                  IN  IF Len(separator.val) = 1
                      THEN LET v == all_consuming(parse_tag_value(separator.rest))
                           IN  IF ~v.ok
                               THEN Err
                               ELSE tags_fold(list, i + 1, insert(ret, n.val, v.val))
                      ELSE IF ~all_consuming(parse_empty_str(separator.rest)).ok
                           THEN Err
                           ELSE tags_fold(list, i + 1, insert(ret, n.val, <<>>))

parse_tags(in) ==
    LET a == tag(<<"@">>, in)
        b == is_not({NUL, CR, LF, SP}, a.rest)
        c == is_a({SP}, b.rest)
    IN  IF ~a.ok \/ ~b.ok \/ ~c.ok
        THEN Err
        ELSE LET l == all_consuming(tags_list(b.val))
             IN  IF ~l.ok
                 THEN Err
                 ELSE LET m == tags_fold(l.val, 1, {})
                      IN  IF ~m.ok THEN Err ELSE Ok(c.rest, m.val)

parse_prefix(in) ==
    LET a == tag(<<":">>, in)
        b == parse_nospcrlfcl(a.rest)
        c == is_a({SP}, b.rest)
    IN  IF ~a.ok \/ ~b.ok \/ ~c.ok THEN Err ELSE Ok(c.rest, b.val)

\* parse_param with an empty token accepted.
parse_param_empty(in) ==
    LET a == opt(is_not({NUL, CR, LF, ":", SP}, in), in)
        b == opt(parse_nospcrlfcl(a.rest), a.rest)
    IN  Ok(b.rest, TakeN(in, Len(in) - Len(b.rest)))

parse_param(in) ==
    LET a == is_not({NUL, CR, LF, ":", SP}, in)
    IN  IF ~a.ok
        THEN Err
        ELSE LET b == opt(parse_nospcrlfcl(a.rest), a.rest)
             IN  Ok(b.rest, TakeN(in, Len(in) - Len(b.rest)))

\* parse_trailing with the trailing text read as a middle parameter is read.
parse_trailing_nosp(in) ==
    LET a == tag(<<SP, ":">>, in)
    IN  IF ~a.ok
        THEN Err
        ELSE LET b == parse_nospcrlfcl(a.rest)
             IN  IF b.ok THEN b ELSE tag(<<>>, a.rest)

parse_trailing(in) ==
    LET a == tag(<<SP, ":">>, in)
    IN  IF ~a.ok
        THEN Err
        ELSE LET b == is_not({CR, LF, NUL}, a.rest)
             IN  IF b.ok THEN b ELSE tag(<<>>, a.rest)

\* many0(preceded(is_a(" "), parse_param)).
RECURSIVE middle_params(_, _)
middle_params(in, acc) ==
    LET s == is_a({SP}, in)
        p == parse_param(s.rest)
    IN  IF ~s.ok \/ ~p.ok
        THEN Ok(in, acc)
        ELSE middle_params(p.rest, Append(acc, p.val))

parse_params(in) ==
    LET m == middle_params(in, <<>>)
        trailing == opt(parse_trailing(m.rest), m.rest)
    IN  Ok(trailing.rest,
           IF Len(trailing.val) = 1 THEN Append(m.val, trailing.val[1]) ELSE m.val)

Message(tags, prefix, command, params) ==
    [tags |-> tags, prefix |-> prefix, command |-> command, params |-> params]

\* The optional parts of parse_message: opt(parse_tags), opt(parse_prefix),
\* opt(parse_params), opt(is_a(" ")) and opt(line_ending).
opt_tags(in) == opt(parse_tags(in), in)

opt_prefix(in) == opt(parse_prefix(in), in)

opt_params(in) == opt(parse_params(in), in)

opt_spaces(in) == opt(is_a({SP}, in), in)

opt_line_ending(in) == opt(line_ending(in), in)

parse_message(in) ==
    LET t == opt_tags(in)
        p == opt_prefix(t.rest)
        c == parse_param(p.rest)
    IN  IF ~c.ok
        THEN Err
        ELSE LET ps == opt_params(c.rest)
                 params == IF Len(ps.val) = 1 THEN ps.val[1] ELSE <<>>
                 s == opt_spaces(ps.rest)
                 le == opt_line_ending(s.rest)
                 e == all_consuming(parse_empty_str(le.rest))
             IN  IF ~e.ok
                 THEN Err
                 ELSE Ok(e.rest,
                         Message(IF Len(t.val) = 1 THEN t.val[1] ELSE {},
                                 p.val, c.val, params))

(***************************************************************************)
(* Inputs.                                                                 *)
(***************************************************************************)
MaxLine == 6

LineAlphabet == {"c", SP, ":", "@", CR, LF, NUL}

Strings(alphabet, n) == UNION {[1..k -> alphabet] : k \in 0..n}

Lines == Strings(LineAlphabet, MaxLine)

NoMessage == Message({}, <<>>, <<>>, <<>>)

(***************************************************************************)
(* Parsing one line.                                                       *)
(***************************************************************************)
Init ==
    /\ msg = NoMessage
    /\ input \in Lines
    /\ result = Err
    /\ pc = "parse"

ParseMessage ==
    /\ pc = "parse"
    /\ result' = parse_message(input)
    /\ pc' = "done"
    /\ UNCHANGED <<msg, input>>

Next == ParseMessage

Spec == Init /\ [][Next]_vars

(***************************************************************************)
(* Parsing a line that opens with a tag block.                             *)
(***************************************************************************)
MaxBlock == 5

BlockAlphabet == {"a", "b", "=", ";", BS, ":"}

TagLines ==
    {<<"@">> \o b \o <<SP, "c">> : b \in Strings(BlockAlphabet, MaxBlock)}

InitTags ==
    /\ msg = NoMessage
    /\ input \in TagLines
    /\ result = Err
    /\ pc = "parse"

SpecTags == InitTags /\ [][Next]_vars

(***************************************************************************)
(* Unescaping one raw tag value.  parse_tags hands parse_tag_value parts   *)
(* of the tag block, which holds no NUL, CR, LF or space.                  *)
(***************************************************************************)
MaxValue == 4

ValueAlphabet == {BS, ":", "s", "r", "n", "a", "="}

InitTagValue ==
    /\ msg = NoMessage
    /\ input \in Strings(ValueAlphabet, MaxValue)
    /\ result = Err
    /\ pc = "value"

ParseTagValue ==
    /\ pc = "value"
    /\ result' = parse_tag_value(input)
    /\ pc' = "done"
    /\ UNCHANGED <<msg, input>>

NextTagValue == ParseTagValue

SpecTagValue == InitTagValue /\ [][NextTagValue]_vars

(***************************************************************************)
(* The escape table, one character at a time.                              *)
(***************************************************************************)
Escaped == {";", SP, BS, CR, LF}

Chars ==
    Escaped \cup {NUL, ":", "=", "@", "!", "#", "-", "0", "1", "9"}
        \cup {"a", "b", "c", "d", "e", "f", "g", "h", "i", "j", "k", "l", "m",
              "n", "o", "p", "q", "r", "s", "t", "u", "v", "w", "x", "y", "z"}

InitEscape ==
    /\ msg = NoMessage
    /\ input \in {<<c>> : c \in Chars}
    /\ result = Err
    /\ pc = "char"

EscapeChar ==
    /\ pc = "char"
    /\ result' = escape_char(input[1])
    /\ pc' = "escaped"
    /\ UNCHANGED <<msg, input>>

UnescapeChar ==
    /\ pc = "char"
    /\ result' = unescape_char(input[1])
    /\ pc' = "unescaped"
    /\ UNCHANGED <<msg, input>>

ParseEscapedChar ==
    /\ pc = "char"
    /\ result' = parse_escaped_char(input)
    /\ pc' = "parsed"
    /\ UNCHANGED <<msg, input>>

\* The second character of an escape sequence, unescaped both ways.
UnescapeEscaped ==
    /\ pc = "escaped"
    /\ Len(result) = 1
    /\ result' = [table |-> unescape_char(result[1][2]),
                  parser |-> parse_escaped_char(<<result[1][2]>>)]
    /\ pc' = "roundtrip"
    /\ UNCHANGED <<msg, input>>

NextEscape == EscapeChar \/ UnescapeChar \/ ParseEscapedChar \/ UnescapeEscaped

SpecEscape == InitEscape /\ [][NextEscape]_vars

(***************************************************************************)
(* The serializer (section 4.3 of the specification) and the round trip.   *)
(***************************************************************************)
RECURSIVE escape_value(_)
escape_value(v) ==
    IF Len(v) = 0
    THEN <<>>
    ELSE LET e == escape_char(v[1])
         IN  (IF Len(e) = 1 THEN e[1] ELSE <<v[1]>>) \o escape_value(Tail(v))

\* The tag names of the model, in ascending order.
TagNames == << <<"a">>, <<"b">> >>

format_tag(tags, name) ==
    LET v == (CHOOSE p \in tags : p[1] = name)[2]
    IN  name \o (IF Len(v) = 0 THEN <<>> ELSE <<"=">> \o escape_value(v))

\* The entries of the names from position i on, each but the first of the
\* block preceded by ';'.
RECURSIVE format_tags(_, _, _)
format_tags(tags, i, first) ==
    IF i > Len(TagNames)
    THEN <<>>
    ELSE IF \E p \in tags : p[1] = TagNames[i]
         THEN (IF first THEN <<>> ELSE <<";">>)
                  \o format_tag(tags, TagNames[i])
                  \o format_tags(tags, i + 1, FALSE)
         ELSE format_tags(tags, i + 1, first)

RECURSIVE format_params(_, _)
format_params(params, i) ==
    IF i > Len(params)
    THEN <<>>
    ELSE IF i = Len(params)
         THEN <<SP, ":">> \o params[i]
         ELSE <<SP>> \o params[i] \o format_params(params, i + 1)

format(m) ==
    (IF m.tags = {} THEN <<>> ELSE <<"@">> \o format_tags(m.tags, 1, TRUE) \o <<SP>>)
        \o (IF Len(m.prefix) = 1 THEN <<":">> \o m.prefix[1] \o <<SP>> ELSE <<>>)
        \o m.command
        \o format_params(m.params, 1)

MaxTagValue == 2

MaxParams == 2

TagValueAlphabet == {"a", ";", SP, BS, LF, "s"}

TagMaps ==
    LET Values == Strings(TagValueAlphabet, MaxTagValue)
    IN  {{}, {<<TagNames[2], <<>>>>}}
            \cup {{<<TagNames[1], v>>} : v \in Values}
            \cup {{<<TagNames[1], v>>, <<TagNames[2], w>>} :
                      v \in Values, w \in {<<>>, <<"a">>, <<";">>}}

Prefixes == {<<>>, << <<"s", ":", "@">> >>}

Commands == {<<"c">>, <<"0", "0", "1">>}

Middles == {<<"a">>, <<"#", ":">>}

Lasts == {<<>>, <<"a">>, <<":">>, <<SP>>, <<"a", SP, ":", "a">>, <<":", SP>>}

ParamLists ==
    {<<>>} \cup
    {Append(ms, l) : ms \in Strings(Middles, MaxParams - 1), l \in Lasts}

Messages ==
    {Message(t, p, c, ps) :
        t \in TagMaps, p \in Prefixes, c \in Commands, ps \in ParamLists}

InitRoundTrip ==
    /\ msg \in Messages
    /\ input = <<>>
    /\ result = Err
    /\ pc = "format"

Format ==
    /\ pc = "format"
    /\ input' = format(msg)
    /\ pc' = "parse"
    /\ UNCHANGED <<msg, result>>

NextRoundTrip == Format \/ ParseMessage

SpecRoundTrip == InitRoundTrip /\ [][NextRoundTrip]_vars

(***************************************************************************)
(* Vocabulary of the properties.                                           *)
(***************************************************************************)
Range(s) == {s[i] : i \in 1..Len(s)}

HasSuffix(s, t) == Len(s) >= Len(t) /\ SubSeq(s, Len(s) - Len(t) + 1, Len(s)) = t

DropLast(s, n) == SubSeq(s, 1, Len(s) - n)

RemoveAt(s, i) == SubSeq(s, 1, i - 1) \o SubSeq(s, i + 1, Len(s))

\* The text left once the optional tag block and the optional prefix are read.
AfterPrefix(line) == opt_prefix(opt_tags(line).rest).rest

\* The text left once the command is read too (the line itself if there is
\* no command).
AfterCommand(line) ==
    LET c == parse_param(AfterPrefix(line))
    IN  IF c.ok THEN c.rest ELSE line

\* Step 1 of the specified algorithm: one trailing LF, then one trailing CR.
StripEnding(s) ==
    LET a == IF HasSuffix(s, <<LF>>) THEN DropLast(s, 1) ELSE s
    IN  IF HasSuffix(a, <<CR>>) THEN DropLast(a, 1) ELSE a

\* The shape of a middle parameter.
IsMiddle(p) == Len(p) > 0 /\ SP \notin Range(p) /\ p[1] # ":"

\* The specified parameter loop: skip spaces; a ':' makes the rest the
\* trailing parameter; anything else runs to the next space.
RECURSIVE RefParams(_)
RefParams(s) ==
    LET t == DropN(s, SpanLen(s, 1, {SP}, TRUE))
    IN  IF Len(t) = 0
        THEN <<>>
        ELSE IF t[1] = ":"
             THEN <<Tail(t)>>
             ELSE LET k == SpanLen(t, 1, {SP}, FALSE)
                  IN  <<TakeN(t, k)>> \o RefParams(DropN(t, k))

\* C1: the params of an accepted line are what the left-to-right parameter
\* loop gives on the text after the command (line ending apart): middle
\* parameters, non-empty, without a space and not starting with ':', then at
\* most one trailing parameter, the whole rest after the first ':' in
\* parameter position, always last.
C1_ParamsShape ==
    (pc = "done" /\ result.ok) =>
        LET params == result.val.params
        IN  /\ params = RefParams(StripEnding(AfterCommand(input)))
            /\ \A i \in 1..(Len(params) - 1) : IsMiddle(params[i])

\* A line with a middle parameter and then a trailing one that holds a space
\* or is empty has been parsed.
C1_Witness ==
    /\ pc = "done" /\ result.ok
    /\ Len(result.val.params) = 2
    /\ IsMiddle(result.val.params[1])
    /\ \/ SP \in Range(result.val.params[2])
       \/ result.val.params[2] = <<>>

\* No command token is left: the text after tags and prefix is empty or
\* begins with a character that no command can begin with.
NoCommandToken(line) ==
    LET r == AfterPrefix(line)
    IN  Len(r) = 0 \/ r[1] \in {NUL, CR, LF, ":", SP}

\* C2: a line with no command token left after the optional tag block and
\* the optional prefix is an error, and no parsed Message has an empty
\* command.
C2_MissingCommandFails ==
    pc = "done" =>
        /\ NoCommandToken(input) => ~result.ok
        /\ result.ok => Len(result.val.command) > 0

\* A line that is only a terminated tag block, or only a terminated prefix,
\* has been rejected.
C2_Witness ==
    /\ pc = "done" /\ ~result.ok
    /\ Len(input) > 0 /\ Len(AfterPrefix(input)) = 0

\* The index in line of the ':' that introduces the trailing parameter,
\* Len(line) + 1 if there is none.
TrailingAt(line) ==
    LET m == middle_params(AfterCommand(line), <<>>)
    IN  IF parse_param(AfterPrefix(line)).ok /\ parse_trailing(m.rest).ok
        THEN Len(line) - Len(m.rest) + 2
        ELSE Len(line) + 1

\* C5: a run of spaces separates like one space: if the line parsed has two
\* spaces in a row where the line with one of them removed has a separating
\* space (any space before the ':' of the trailing parameter), and that
\* shorter line parses, the line parses to the same Message.
C5_SpaceRuns ==
    pc = "done" =>
        \A i \in 1..(Len(input) - 1) :
            LET shorter == RemoveAt(input, i)
            IN  (/\ input[i] = SP /\ input[i + 1] = SP
                 /\ i < TrailingAt(shorter)
                 /\ parse_message(shorter).ok)
                => result = parse_message(shorter)

NoTerminator(line) == ~HasSuffix(line, <<LF>>) /\ ~HasSuffix(line, <<CR>>)

Fields(m) ==
    {m.command} \cup Range(m.params) \cup Range(m.prefix)
        \cup {t[1] : t \in m.tags} \cup {t[2] : t \in m.tags}

\* C6: a line made of an accepted line without terminator followed by LF,
\* CR LF or CR parses to the same Message, none of whose fields holds a CR
\* or an LF.
C6_LineEndings ==
    pc = "done" =>
        \A term \in {<<LF>>, <<CR, LF>>, <<CR>>} :
            LET body == DropLast(input, Len(term))
            IN  (/\ HasSuffix(input, term)
                 /\ NoTerminator(body)
                 /\ parse_message(body).ok)
                => /\ result = parse_message(body)
                   /\ \A f \in Fields(result.val) : Range(f) \cap {CR, LF} = {}

\* C7: a line that starts with '@' and has no space after the tag block is
\* an error.
C7_UnterminatedTagsFail ==
    (pc = "done" /\ Len(input) > 0 /\ input[1] = "@" /\ SP \notin Range(input))
        => ~result.ok

\* C9: '@', one or more spaces, then a valid tag-less message parses to
\* that message, with an empty tags map.
C9_EmptyTagBlock ==
    (pc = "done" /\ Len(input) > 0 /\ input[1] = "@") =>
        LET n == SpanLen(Tail(input), 1, {SP}, TRUE)
            R == DropN(Tail(input), n)
        IN  (/\ n >= 1
             /\ Len(R) > 0 /\ R[1] # "@"
             /\ parse_message(R).ok)
            => /\ result.ok
               /\ result.val = [parse_message(R).val EXCEPT !.tags = {}]

\* The specified unescaping, one character at a time: a character other
\* than the backslash is copied; backslash and x give the table's character
\* for x, or x itself; a last backslash alone gives nothing.
RECURSIVE RefUnescape(_)
RefUnescape(raw) ==
    IF Len(raw) = 0
    THEN <<>>
    ELSE IF raw[1] # BS
         THEN <<raw[1]>> \o RefUnescape(Tail(raw))
         ELSE IF Len(raw) = 1
              THEN <<>>
              ELSE LET x == raw[2]
                       c == CASE x = ":" -> ";"
                              [] x = "s" -> SP
                              [] x = BS -> BS
                              [] x = "r" -> CR
                              [] x = "n" -> LF
                              [] OTHER -> x
                   IN  <<c>> \o RefUnescape(DropN(raw, 2))

\* C3: unescaping a raw tag value does not fail, consumes the value and
\* gives the specified unescaping of it.
C3_UnescapeValue ==
    pc = "done" =>
        /\ result.ok
        /\ result.rest = <<>>
        /\ result.val = RefUnescape(input)

\* A value with a known escape, an unknown escape and a last backslash alone
\* has been unescaped.
C3_Witness ==
    /\ pc = "done"
    /\ input = <<BS, ":", BS, "a">> \/ input = <<"a", BS, "s", BS>>

\* The parts of s between the occurrences of sep.
RECURSIVE Split(_, _)
Split(s, sep) ==
    LET k == SpanLen(s, 1, {sep}, FALSE)
    IN  IF k = Len(s)
        THEN <<s>>
        ELSE <<TakeN(s, k)>> \o Split(DropN(s, k + 1), sep)

NameOf(comp) == TakeN(comp, SpanLen(comp, 1, {"="}, FALSE))

ValueOf(comp) ==
    LET k == SpanLen(comp, 1, {"="}, FALSE)
    IN  IF k = Len(comp) THEN <<>> ELSE RefUnescape(DropN(comp, k + 1))

\* The map the components give when the last one of each name wins.
RefTags(block) ==
    LET comps == Split(block, ";")
    IN  {<<NameOf(comps[i]), ValueOf(comps[i])>> :
            i \in {i \in 1..Len(comps) :
                      \A j \in (i + 1)..Len(comps) :
                          NameOf(comps[j]) # NameOf(comps[i])}}

\* The text between '@' and the first space of a line.
BlockOf(line) == TakeN(Tail(line), SpanLen(Tail(line), 1, {SP}, FALSE))

\* Every component of the block has a name.
NamedComponents(block) ==
    LET comps == Split(block, ";")
    IN  \A i \in 1..Len(comps) : Len(NameOf(comps[i])) > 0

\* C4: the tags of a line with a terminated tag block, each component of
\* which has a name, are the components split at their first '=', with the
\* value unescaped, the empty value where there is no '=', and the last
\* component of a name winning.
C4_TagsFold ==
    (pc = "done" /\ NamedComponents(BlockOf(input))) =>
        /\ result.ok
        /\ result.val.tags = RefTags(BlockOf(input))

\* A block that names a tag twice, with different values, has been parsed.
C4_Witness ==
    /\ pc = "done" /\ result.ok
    /\ NamedComponents(BlockOf(input))
    /\ LET comps == Split(BlockOf(input), ";")
       IN  /\ Len(comps) = 2
           /\ NameOf(comps[1]) = NameOf(comps[2])
           /\ ValueOf(comps[1]) # ValueOf(comps[2])

\* C8: formatting a well-formed message and parsing the line gives the
\* message back.
C8_RoundTrip ==
    pc = "done" =>
        /\ result.ok
        /\ result.val = msg

\* A message with two tags, one value escaped, a prefix and two parameters,
\* the last with a space, has come back.
C8_Witness ==
    /\ pc = "done" /\ result.ok
    /\ Cardinality(msg.tags) = 2
    /\ \E t \in msg.tags : Range(t[2]) \cap Escaped # {}
    /\ Len(msg.prefix) = 1
    /\ Len(msg.params) = 2
    /\ SP \in Range(msg.params[2])

\* C10: escape_char gives backslash and x for the five characters of the
\* table and None for any other; unescape_char and parse_escaped_char both
\* take that x back to the character; and the two agree on every character.
C10_EscapeTable ==
    /\ pc = "escaped" =>
          IF input[1] \in Escaped
          THEN Len(result) = 1 /\ Len(result[1]) = 2 /\ result[1][1] = BS
          ELSE result = <<>>
    /\ pc = "roundtrip" =>
          /\ result.table = input[1]
          /\ result.parser = Ok(<<>>, input)
    /\ pc = "unescaped" => parse_escaped_char(input) = Ok(<<>>, <<result>>)
    /\ pc = "parsed" => result = Ok(<<>>, <<unescape_char(input[1])>>)

\* The escape sequence of CR has been unescaped.
C10_Witness == pc = "roundtrip" /\ input = <<CR>>

====
